---- MODULE Spec2Model ----
(***************************************************************************)
(* Model of the generic store factory of src/src/zustand.ts: the state of  *)
(* one store produced by createGenericStore, the five base actions, and    *)
(* the wrapper calls (apiClient.get/post/put/delete) they await.           *)
(*                                                                         *)
(* JavaScript runs each synchronous block to completion, so every block    *)
(* between two suspension points of an async function is one step.  The    *)
(* two store writes that follow a successful mutation call (the loading    *)
(* reset and the start of the refetch) are kept as two steps, with every   *)
(* other step disabled in between, because store subscribers observe both. *)
(***************************************************************************)
EXTENDS Integers, Sequences, FiniteSets, TLC

\* ------------------------------------------------------------------------
\* Bounds
\* ------------------------------------------------------------------------
MaxCalls == 2      \* invocations of base actions tracked at the same time
MaxId    == 2      \* resource identifiers 1..MaxId
MaxNum   == 2      \* paging numbers 0..MaxNum carried by a list response

Procs == 1 .. MaxCalls
Ids   == 1 .. MaxId
Nums  == 0 .. MaxNum

\* ------------------------------------------------------------------------
\* JavaScript values
\* ------------------------------------------------------------------------
Null          == [t |-> "null"]
Undefined     == [t |-> "undefined"]
Resource(i)   == [t |-> "object", id |-> i]
ErrorObj(m)   == [t |-> "error", message |-> m]
PlainObj(i)   == [t |-> "plain", detail |-> i]
StringVal(s)  == [t |-> "string", s |-> s]

Resources == { Resource(i) : i \in Ids }

\* an optional field of a response: {} when absent, {v} when present
Opt(S) == { {} } \cup { {v} : v \in S }

\* String(v) of JavaScript
JSString(v) ==
  IF v.t = "string" THEN v.s
  ELSE IF v.t = "error" THEN "Error: " \o v.message
  ELSE IF v.t = "null" THEN "null"
  ELSE IF v.t = "undefined" THEN "undefined"
  ELSE "[object Object]"

\* variant: the rejected value is stored as it is
ToErrorRaw(v) == v

\* variant: every rejected value is wrapped, error objects too
ToErrorRewraps(v) == ErrorObj(JSString(v))

\* error instanceof Error ? error : new Error(String(error))
ToError(v) == IF v.t = "error" THEN v ELSE ErrorObj(JSString(v))

\* data.objects || []
ItemsOf(data) ==
  IF data.objects = {} THEN <<>> ELSE CHOOSE l \in data.objects : TRUE

\* n || d for an optional number n: undefined and 0 are falsy
OrNum(n, d) ==
  IF n = {} \/ n = {0} THEN d ELSE CHOOSE v \in n : TRUE

\* data.total_count || (data.objects ? data.objects.length : 0)
TotalCountOf(data) ==
  OrNum(data.total_count, IF data.objects = {} THEN 0 ELSE Len(ItemsOf(data)))

\* the meta object written by fetchAll
MetaOf(data) ==
  [ currentPage |-> OrNum(data.current_page, 1),
    totalPages  |-> OrNum(data.num_pages, 1),
    totalCount  |-> TotalCountOf(data) ]

\* ------------------------------------------------------------------------
\* What the wrapper can answer
\* ------------------------------------------------------------------------
ObjectLists ==
  { <<>>, <<Resource(1)>>, <<Resource(1), Resource(MaxId)>> }

ListBody(o, c, n, t) ==
  [ isObject |-> TRUE, objects |-> o, current_page |-> c,
    num_pages |-> n, total_count |-> t ]

\* a get that resolves with no body
NullBody == [ isObject |-> FALSE, objects |-> {}, current_page |-> {},
              num_pages |-> {}, total_count |-> {} ]

\* every object a list endpoint can answer within the bounds
AllBodies ==
  { ListBody(o, c, n, t) :
      o \in Opt(ObjectLists), c \in Opt(Nums), n \in Opt(Nums), t \in Opt(Nums) }

\* two answers that differ in every field, used (with the null body) where
\* calls interleave
SampleBodies ==
  { ListBody({<<Resource(1)>>}, {}, {}, {}),
    ListBody({<<Resource(1), Resource(MaxId)>>}, {2}, {2}, {MaxNum}) }

\* values a wrapper call can reject with
Rejections ==
  { ErrorObj("No response from server"), PlainObj(1) }

\* reading a property of a null body throws
TypeErr == ErrorObj("Cannot read properties of null")

\* ------------------------------------------------------------------------
\* Requests
\* ------------------------------------------------------------------------
Endpoint == <<"/test-items">>

\* `${endpoint}/${id}`
ItemPath(id) == Endpoint \o <<"/", ToString(id)>>

EmptyParams == {}
PageParams  == { <<"page", 1>> }
Payload     == { <<"name", "New Item">> }

Given(v) == [given |-> TRUE, val |-> v]
NotGiven == [given |-> FALSE]

Request(m, p, a) == [method |-> m, path |-> p, arg |-> a]

\* ------------------------------------------------------------------------
\* State
\* ------------------------------------------------------------------------
VARIABLES
  state,   \* the store state: items, item, loading, error, meta, the actions
  calls,   \* per invocation slot: the position of the async function
  made,    \* how the store was made: the second argument of
           \* createGenericStore and what the call threw, if anything
  other,   \* the state of a second store made by createGenericStore(endpoint)
  api      \* the HTTP wrapper: its transport instance and its current call

vars == <<state, calls, made, other, api>>

\* { ...a, ...b }: the fields of b laid over the fields of a
Merge(a, b) ==
  [ k \in DOMAIN a \cup DOMAIN b |-> IF k \in DOMAIN b THEN b[k] ELSE a[k] ]

\* variant: set replaces the state by the partial
SetStateReplaces(st, partial) == partial

\* zustand's set(partial): shallow merge of the partial into the state
SetState(st, partial) == Merge(st, partial)

InitialMeta == [currentPage |-> 1, totalPages |-> 1, totalCount |-> 0]

\* variant: a new store is loading
InitialStateLoading ==
  [ items |-> <<>>, item |-> Null, loading |-> TRUE, error |-> Null,
    meta |-> InitialMeta ]

InitialState ==
  [ items |-> <<>>, item |-> Null, loading |-> FALSE, error |-> Null,
    meta |-> InitialMeta ]

BaseActions == {"fetchAll", "fetchOne", "create", "update", "remove"}

\* an action function of the store
ActionFn(name) == [t |-> "function", name |-> name]

\* the object the initializer returns before the extension is spread in:
\* the base state and the five base actions
BaseStore == Merge(InitialState, [a \in BaseActions |-> ActionFn(a)])

\* what can be passed as the second argument of createGenericStore: an
\* extendStore function (given by the object it returns), or an options
\* object with a selection of actions and, optionally, an extendStore
ExtendFn(ext) == [t |-> "function", returns |-> ext]
Options(actions, ext) ==
  [t |-> "options", actions |-> actions, extendStore |-> ext]

\* the extension of the tests: one custom field and one custom action
CustomExtension ==
  ExtendFn([ customState  |-> StringVal("initial"),
             customAction |-> ActionFn("customAction") ])

\* an extension whose names collide with a base field and a base action;
\* its fetchAll is a function that does nothing
CollidingExtension ==
  ExtendFn([ customState  |-> StringVal("initial"),
             customAction |-> ActionFn("customAction"),
             loading      |-> TRUE,
             fetchAll     |-> ActionFn("customFetchAll") ])

Selections ==
  { {"fetchAll", "fetchOne"}, {"create", "update", "remove"}, BaseActions }

SecondArgs ==
  {Undefined, CustomExtension, CollidingExtension}
    \cup { Options(a, e) : a \in Selections, e \in {{}, {CustomExtension}} }

\* calling a value that is not a function throws
NotAFunction == ErrorObj("extendStore is not a function")

\* no store was produced
NoStore == [k \in {} |-> Null]

\* extendStore ? extendStore(set, get) : defaultExtend(set, get), as a set:
\* the object that is spread in, or nothing when the call throws
ExtensionOf(arg) ==
  IF arg.t = "undefined" THEN { [k \in {} |-> Null] }
  ELSE IF arg.t = "function" THEN { arg.returns }
  ELSE {}

\* variant: the extension is spread in first, under the base
CreateGenericStoreBaseLast(arg) ==
  IF ExtensionOf(arg) = {}
    THEN [arg |-> arg, threw |-> {NotAFunction}, state |-> NoStore]
    ELSE [arg |-> arg, threw |-> {},
          state |-> Merge(CHOOSE ext \in ExtensionOf(arg) : TRUE, BaseStore)]

\* createGenericStore(endpoint, arg): the state of the produced store, or
\* what the call threw
CreateGenericStore(arg) ==
  IF ExtensionOf(arg) = {}
    THEN [arg |-> arg, threw |-> {NotAFunction}, state |-> NoStore]
    ELSE [arg |-> arg, threw |-> {},
          state |-> Merge(BaseStore, CHOOSE ext \in ExtensionOf(arg) : TRUE)]

\* the state object st has the action k
HasAction(st, k) == k \in DOMAIN st /\ st[k].t = "function"

\* the action k of the state object st is the base action of that name
IsBaseAction(st, k) == HasAction(st, k) /\ st[k] = ActionFn(k)

\* kind, pc: the action and the position of its async function;
\* data: the local createdData / updatedData; ret: the value the promise
\* resolved with; settled: how the promise settled.  The other fields record
\* what happened: log, the wrapper calls the invocation issued, in order;
\* main and refetch, whether its own wrapper call and the get of its refetch
\* resolved ("ok") or rejected ("fail"); resp, the value the last of them
\* resolved or rejected with; solo, whether no other invocation has been in
\* flight at any time since this one was invoked.
\* via: for each wrapper call of log, the transport in place when it was
\* issued (none while initApiClient has not been called).
\* ran: the function the refetch called, once it has called one.
\* store: the store whose actions the slot invokes (1: state, 2: other);
\* id: the id the action was invoked with, if it takes one.
IdleCall ==
  [ kind |-> "none", store |-> 1, pc |-> "idle", id |-> {}, log |-> <<>>,
    via |-> <<>>, ran |-> {},
    data |-> Undefined,
    ret |-> Undefined, main |-> "none", refetch |-> "none",
    resp |-> Undefined, settled |-> "pending", solo |-> TRUE ]

\* the HTTP wrapper before initApiClient is called.  instance: the
\* transport, if initApiClient has been called; pc, method, path, arg: the
\* wrapper call under way; sent: the calls it has made on the transport;
\* answer: what the transport answered; result: how the promise of the
\* wrapper call settled.  config: the argument of the last initApiClient
\* call; replaced: the argument of the initApiClient call before
\* it; via: the transport the call under way was made on.
InitialApi ==
  [ instance |-> {}, pc |-> "idle", method |-> "none", path |-> <<>>,
    arg |-> NotGiven, sent |-> <<>>, answer |-> {}, result |-> {},
    config |-> {}, replaced |-> {}, via |-> {} ]

\* the store made with the second argument arg
InitWith(arg) ==
  /\ made = [arg |-> arg, threw |-> CreateGenericStore(arg).threw]
  /\ state = CreateGenericStore(arg).state
  /\ other = CreateGenericStore(Undefined).state
  /\ calls = [p \in Procs |-> IdleCall]
  /\ api = InitialApi

\* createGenericStore(endpoint)
Init == InitWith(Undefined)

\* ------------------------------------------------------------------------
\* The writes of the base actions
\* ------------------------------------------------------------------------
\* variant: the start of an action does not clear the error
StartPartialKeepsError == [loading |-> TRUE]

\* set({ loading: true, error: null }), the first statement of every action
StartPartial == [loading |-> TRUE, error |-> Null]

\* variant: fetchAll does not reset loading on success
FetchAllPartialKeepsLoading(data) ==
  [items |-> ItemsOf(data), meta |-> MetaOf(data)]

\* variant: fetchAll writes the list and leaves the paging data for later
FetchAllPartialKeepsMeta(data) ==
  [items |-> ItemsOf(data), loading |-> FALSE]

\* set({ items, meta, loading: false }) of fetchAll
FetchAllPartial(data) ==
  [items |-> ItemsOf(data), meta |-> MetaOf(data), loading |-> FALSE]

\* variant: fetchOne also empties the list
FetchOnePartialClearsList(data) ==
  [item |-> data, loading |-> FALSE, items |-> <<>>]

\* variant: fetchOne does not reset loading on success
FetchOnePartialKeepsLoading(data) == [item |-> data]

\* set({ item: data, loading: false }) of fetchOne
FetchOnePartial(data) == [item |-> data, loading |-> FALSE]

\* variant: no loading reset between the mutation call and the refetch
ResetPartialSkipped == [k \in {} |-> FALSE]

\* variant: the loading reset after the mutation also clears the error
ResetPartialClearsError == [loading |-> FALSE, error |-> Null]

\* set({ loading: false }) of create, update and remove after the mutation
ResetPartial == [loading |-> FALSE]

\* variant: the catch block does not reset loading
FailurePartialKeepsLoading(e) == [error |-> ToError(e)]

\* variant: the catch block also empties the list
FailurePartialClearsItems(e) ==
  [error |-> ToError(e), loading |-> FALSE, items |-> <<>>]

\* set({ error: ..., loading: false }) of every catch block
FailurePartial(e) == [error |-> ToError(e), loading |-> FALSE]

Resolved(v) == [ok |-> TRUE, val |-> v]
Rejected(v) == [ok |-> FALSE, val |-> v]

\* variant: a missing body is read as an empty response
FetchAllThrownOnlyRejections(r) ==
  IF ~r.ok THEN {r.val} ELSE {}

\* the value the try block of fetchAll throws for the outcome r of its get,
\* as a set: empty when nothing is thrown
FetchAllThrown(r) ==
  IF ~r.ok THEN {r.val}
  ELSE IF ~r.val.isObject THEN {TypeErr}
  ELSE {}

\* variant: the catch block of fetchAll also resets meta
FetchAllDoneResetsMeta(st, r) ==
  IF FetchAllThrown(r) = {}
    THEN SetState(st, FetchAllPartial(r.val))
    ELSE SetState(st, [error |-> ToError(CHOOSE e \in FetchAllThrown(r) : TRUE),
                       loading |-> FALSE, meta |-> InitialMeta])

\* variant: a response that arrives when the store is no longer loading is
\* dropped
FetchAllDoneDropsStale(st, r) ==
  IF FetchAllThrown(r) = {}
    THEN IF st.loading THEN SetState(st, FetchAllPartial(r.val)) ELSE st
    ELSE SetState(st, FailurePartial(CHOOSE e \in FetchAllThrown(r) : TRUE))

\* the store state after fetchAll's get has settled with outcome r
FetchAllDone(st, r) ==
  IF FetchAllThrown(r) = {}
    THEN SetState(st, FetchAllPartial(r.val))
    ELSE SetState(st, FailurePartial(CHOOSE e \in FetchAllThrown(r) : TRUE))

\* variant: nothing is returned
RetOfNothing(kind, data) == Undefined

\* the value create and update return after the refetch; remove returns nothing
RetOf(kind, data) == IF kind \in {"create", "update"} THEN data ELSE Undefined

Mutating == {"create", "update", "remove"}

InFlight(c) == c.pc \notin {"idle", "done"}

\* no action is inside a synchronous block: between its loading reset and
\* the refetch it triggers, or at the instant its promise settles
NoSyncBlock == \A q \in Procs : calls[q].pc \notin {"reset", "done"}

Stores == {1, 2}

\* the store whose action runs in slot p
StoreOf(p) == calls[p].store

\* get() of store s
Get(s) == IF s = 1 THEN state ELSE other

\* variant: the stores made by the factory share one state
PutShared(s, st) == state' = st /\ UNCHANGED other

\* the state of store s becomes st; every store has a state of its own
Put(s, st) ==
  IF s = 1 THEN state' = st /\ UNCHANGED other
           ELSE other' = st /\ UNCHANGED state

\* a new invocation takes the lowest free slot of its store
LowestFree(p) ==
  /\ calls[p].pc = "idle"
  /\ \A q \in Procs :
       (q < p /\ StoreOf(q) = StoreOf(p)) => calls[q].pc # "idle"

\* ------------------------------------------------------------------------
\* Invocation: the synchronous part of an action up to its first await
\* ------------------------------------------------------------------------
Invoke(p, k, id, req) ==
  /\ IsBaseAction(Get(StoreOf(p)), k)
  /\ NoSyncBlock
  /\ LowestFree(p)
  /\ UNCHANGED <<made, api>>
  /\ Put(StoreOf(p), SetState(Get(StoreOf(p)), StartPartial))
  /\ LET others == { q \in Procs \ {p} :
                      InFlight(calls[q]) /\ StoreOf(q) = StoreOf(p) } IN
     calls' = [ q \in Procs |->
       IF q = p
         THEN [IdleCall EXCEPT !.kind = k, !.store = StoreOf(p),
                               !.pc = "await", !.id = id,
                               !.log = <<req>>, !.via = <<api.instance>>,
                               !.solo = (others = {})]
         ELSE IF q \in others THEN [calls[q] EXCEPT !.solo = FALSE]
         ELSE calls[q] ]

FetchAll(p, params) ==
  Invoke(p, "fetchAll", {}, Request("get", Endpoint, Given(params)))

FetchOne(p, id) ==
  Invoke(p, "fetchOne", {id}, Request("get", ItemPath(id), NotGiven))

Create(p, payload) ==
  Invoke(p, "create", {}, Request("post", Endpoint, Given(payload)))

Update(p, id, payload) ==
  Invoke(p, "update", {id}, Request("put", ItemPath(id), Given(payload)))

\* variant: remove addresses the resource with a trailing slash
RemoveTrailingSlash(p, id) ==
  Invoke(p, "remove", {id},
         Request("delete", ItemPath(id) \o <<"/">>, NotGiven))

Remove(p, id) ==
  Invoke(p, "remove", {id}, Request("delete", ItemPath(id), NotGiven))

\* ------------------------------------------------------------------------
\* Continuations: what runs when the awaited wrapper call settles
\* ------------------------------------------------------------------------
\* variant: a continuation runs only while no other action is waiting for
\* its wrapper call
AwaitingAlone(p, kinds) ==
  /\ NoSyncBlock
  /\ calls[p].pc = "await"
  /\ calls[p].kind \in kinds
  /\ \A q \in Procs \ {p} : calls[q].pc # "await"

\* the awaited wrapper call of the action in slot p settles
Awaiting(p, kinds) ==
  /\ NoSyncBlock
  /\ calls[p].pc = "await"
  /\ calls[p].kind \in kinds

Settle(p, outcome, v) ==
  /\ calls' = [calls EXCEPT ![p].pc = "done", ![p].main = outcome,
                            ![p].resp = v, ![p].ret = Undefined,
                            ![p].settled = "resolved"]
  /\ UNCHANGED <<made, api>>

FetchAllSuccess(p, data) ==
  /\ Awaiting(p, {"fetchAll"})
  /\ Put(StoreOf(p), FetchAllDone(Get(StoreOf(p)), Resolved(data)))
  /\ Settle(p, "ok", data)

FetchAllFailure(p, e) ==
  /\ Awaiting(p, {"fetchAll"})
  /\ Put(StoreOf(p), FetchAllDone(Get(StoreOf(p)), Rejected(e)))
  /\ Settle(p, "fail", e)

FetchOneSuccess(p, data) ==
  /\ Awaiting(p, {"fetchOne"})
  /\ Put(StoreOf(p), SetState(Get(StoreOf(p)), FetchOnePartial(data)))
  /\ Settle(p, "ok", data)

FetchOneFailure(p, e) ==
  /\ Awaiting(p, {"fetchOne"})
  /\ Put(StoreOf(p), SetState(Get(StoreOf(p)), FailurePartial(e)))
  /\ Settle(p, "fail", e)

\* post, put or delete resolved: the loading reset, then on to the refetch
MutationSuccess(p, data) ==
  /\ Awaiting(p, Mutating)
  /\ Put(StoreOf(p), SetState(Get(StoreOf(p)), ResetPartial))
  /\ calls' = [calls EXCEPT
       ![p].pc = "reset", ![p].main = "ok", ![p].resp = data,
       ![p].data = IF calls[p].kind = "remove" THEN Undefined ELSE data]
  /\ UNCHANGED <<made, api>>

MutationFailure(p, e) ==
  /\ Awaiting(p, Mutating)
  /\ Put(StoreOf(p), SetState(Get(StoreOf(p)), FailurePartial(e)))
  /\ Settle(p, "fail", e)

\* variant: the refetch passes paging params on
RefetchStartWithParams(p) ==
  /\ calls[p].pc = "reset"
  /\ Put(StoreOf(p), SetState(Get(StoreOf(p)), StartPartial))
  /\ calls' = [calls EXCEPT
       ![p].pc = "refetch",
       ![p].log = Append(@, Request("get", Endpoint, Given(PageParams))),
       ![p].via = Append(@, api.instance)]
  /\ UNCHANGED <<made, api>>

\* variant: the list is emptied while the refetch is under way
RefetchStartClearsList(p) ==
  /\ calls[p].pc = "reset"
  /\ Put(StoreOf(p), SetState(Get(StoreOf(p)),
                               [loading |-> TRUE, error |-> Null,
                                items |-> <<>>]))
  /\ calls' = [calls EXCEPT
       ![p].pc = "refetch",
       ![p].log = Append(@, Request("get", Endpoint, Given(EmptyParams))),
       ![p].via = Append(@, api.instance)]
  /\ UNCHANGED <<made, api>>

\* variant: the refetch goes through the transport of the mutation call
RefetchStartSameTransport(p) ==
  /\ calls[p].pc = "reset"
  /\ Put(StoreOf(p), SetState(Get(StoreOf(p)), StartPartial))
  /\ calls' = [calls EXCEPT
       ![p].pc = "refetch",
       ![p].log = Append(@, Request("get", Endpoint, Given(EmptyParams))),
       ![p].via = Append(@, @[1])]
  /\ UNCHANGED <<made, api>>

\* variant: the refetch calls the base fetchAll whatever the state holds
RefetchStartCallsBase(p) ==
  /\ calls[p].pc = "reset"
  /\ Put(StoreOf(p), SetState(Get(StoreOf(p)), StartPartial))
  /\ calls' = [calls EXCEPT
       ![p].pc = "refetch",
       ![p].log = Append(@, Request("get", Endpoint, Given(EmptyParams))),
       ![p].via = Append(@, api.instance),
       ![p].ran = {ActionFn("fetchAll")}]
  /\ UNCHANGED <<made, api>>

\* get().fetchAll() called without arguments, in the same synchronous block;
\* get() is the current state, so a fetchAll of the extension that has
\* replaced the base one is what runs, and the action resumes after it
RefetchStart(p) ==
  /\ calls[p].pc = "reset"
  /\ IF IsBaseAction(Get(StoreOf(p)), "fetchAll")
       THEN /\ Put(StoreOf(p), SetState(Get(StoreOf(p)), StartPartial))
            /\ calls' = [calls EXCEPT
                 ![p].pc = "refetch",
                 ![p].log = Append(@, Request("get", Endpoint,
                                              Given(EmptyParams))),
                 ![p].via = Append(@, api.instance),
                 ![p].ran = {Get(StoreOf(p)).fetchAll}]
       ELSE /\ UNCHANGED <<state, other>>
            /\ calls' = [calls EXCEPT ![p].pc = "resume",
                                      ![p].ran = {Get(StoreOf(p)).fetchAll}]
  /\ UNCHANGED <<made, api>>

RefetchSuccess(p, data) ==
  /\ NoSyncBlock
  /\ calls[p].pc = "refetch"
  /\ Put(StoreOf(p), FetchAllDone(Get(StoreOf(p)), Resolved(data)))
  /\ calls' = [calls EXCEPT ![p].pc = "resume", ![p].refetch = "ok",
                            ![p].resp = data]
  /\ UNCHANGED <<made, api>>

RefetchFailure(p, e) ==
  /\ NoSyncBlock
  /\ calls[p].pc = "refetch"
  /\ Put(StoreOf(p), FetchAllDone(Get(StoreOf(p)), Rejected(e)))
  /\ calls' = [calls EXCEPT ![p].pc = "resume", ![p].refetch = "fail",
                            ![p].resp = e]
  /\ UNCHANGED <<made, api>>

\* variant: a failed refetch sends the action to its catch block, which
\* returns nothing
MutationReturnCatchesRefetch(p) ==
  /\ NoSyncBlock
  /\ calls[p].pc = "resume"
  /\ calls' = [calls EXCEPT
       ![p].pc = "done", ![p].settled = "resolved",
       ![p].ret = IF calls[p].refetch = "fail" THEN Undefined
                  ELSE RetOf(calls[p].kind, calls[p].data)]
  /\ UNCHANGED <<state, made, other, api>>

\* the action resumes after `await get().fetchAll()` and returns
MutationReturn(p) ==
  /\ NoSyncBlock
  /\ calls[p].pc = "resume"
  /\ calls' = [calls EXCEPT
       ![p].pc = "done", ![p].settled = "resolved",
       ![p].ret = RetOf(calls[p].kind, calls[p].data)]
  /\ UNCHANGED <<state, made, other, api>>

\* customAction(value) of the extension: set({ customState: value })
CustomAction(value) ==
  /\ HasAction(state, "customAction")
  /\ NoSyncBlock
  /\ state' = SetState(state, [customState |-> StringVal(value)])
  /\ UNCHANGED <<calls, made, other, api>>

\* setState({ fetchAll: fn }) on the store returned by createGenericStore
InstallFetchAll(fn) ==
  /\ made.threw = {}
  /\ NoSyncBlock
  /\ state' = SetState(state, [fetchAll |-> fn])
  /\ UNCHANGED <<calls, made, other, api>>

\* the caller has observed the settled promise; the slot is free again
Release(p) ==
  /\ calls[p].pc = "done"
  /\ calls' = [calls EXCEPT ![p] = [IdleCall EXCEPT !.store = StoreOf(p)]]
  /\ UNCHANGED <<state, made, other, api>>

\* ------------------------------------------------------------------------
\* The HTTP wrapper (initApiClient, apiClient)
\* ------------------------------------------------------------------------
\* a configuration passed to initApiClient
ApiConfig(b, h) == [baseURL |-> b, headers |-> h]

NoHeaders == [k \in {} |-> ""]

Configs ==
  { ApiConfig("http://test.com", NoHeaders),
    ApiConfig("http://test-api.com/api",
              [k \in {"X-Custom"} |-> "TestValue"]) }

DefaultHeaders == [k \in {"Content-Type"} |-> "application/json"]

\* the transport made for a configuration: credentialed by default, the
\* caller's headers laid over the default ones
CreateTransport(cfg) ==
  [ baseURL |-> cfg.baseURL, withCredentials |-> TRUE,
    headers |-> Merge(DefaultHeaders, cfg.headers) ]

WrapperMethods == {"get", "post", "put", "delete", "postFile"}

\* the methods that pass their second argument as query params
WithParams == {"get", "delete"}

NotInitialized ==
  ErrorObj("apiClient not initialized. Call initApiClient(config) first.")

\* the call the wrapper makes on the transport for method m: postFile posts
\* its form with a multipart header, the other methods go through request
\* with params (an empty object when none are given) or data
TransportCall(m, path, arg) ==
  IF m = "postFile"
    THEN [ fn |-> "post", method |-> "post", url |-> path, key |-> "data",
           payload |-> arg,
           headers |-> [k \in {"Content-Type"} |-> "multipart/form-data"] ]
    ELSE [ fn |-> "request", method |-> m, url |-> path,
           key |-> IF m \in WithParams THEN "params" ELSE "data",
           payload |-> IF m \in WithParams /\ ~arg.given
                         THEN Given(EmptyParams) ELSE arg,
           headers |-> NoHeaders ]

\* what a failed transport call carries: a server response (status and
\* body), a request that got no response, or only a message
Failure(r, q, m) == [response |-> r, request |-> q, message |-> m]

FailureMessages == {"Network Error", "Failed to setup request"}

Failures ==
  { Failure(r, q, m) :
      r \in Opt({[status |-> 404, data |-> PlainObj(1)]}), q \in BOOLEAN,
      m \in FailureMessages }

\* variant: a failure that carries a request is a network error even when
\* it carries a response
HandleErrorRequestFirst(f) ==
  IF f.request THEN ErrorObj("No response from server")
  ELSE IF f.response # {} THEN (CHOOSE r \in f.response : TRUE).data
  ELSE ErrorObj("Request failed: " \o f.message)

\* handleError: the value the wrapper rejects with
HandleError(f) ==
  IF f.response # {} THEN (CHOOSE r \in f.response : TRUE).data
  ELSE IF f.request THEN ErrorObj("No response from server")
  ELSE ErrorObj("Request failed: " \o f.message)

\* the response envelopes of the transport
Envelope(status, data) == [status |-> status, data |-> data]

Envelopes ==
  { Envelope(200, Resource(1)), Envelope(201, Resource(MaxId)) }

\* variant: the headers of the transport in place are kept under the new ones
InitApiClientKeepsHeaders(cfg) ==
  /\ api' = [api EXCEPT
       !.instance =
         { [CreateTransport(cfg) EXCEPT
              !.headers = Merge(IF api.instance = {} THEN NoHeaders
                                ELSE (CHOOSE t \in api.instance : TRUE).headers,
                                @)] },
       !.config = {cfg}, !.replaced = api.config]
  /\ UNCHANGED <<state, calls, made, other>>

\* initApiClient(config): the transport is replaced
InitApiClient(cfg) ==
  /\ api' = [api EXCEPT !.instance = {CreateTransport(cfg)},
                        !.config = {cfg}, !.replaced = api.config]
  /\ UNCHANGED <<state, calls, made, other>>

\* variant: the call goes to the transport without the check
WrapperCallUnchecked(m, path, arg) ==
  /\ api.pc = "idle"
  /\ api' = [api EXCEPT !.pc = "pending", !.method = m, !.path = path,
                        !.arg = arg, !.answer = {}, !.result = {},
                        !.via = api.instance,
                        !.sent = <<TransportCall(m, path, arg)>>]
  /\ UNCHANGED <<state, calls, made, other>>

\* apiClient.get / post / put / delete / postFile (path, arg)
WrapperCall(m, path, arg) ==
  /\ api.pc = "idle"
  /\ IF api.instance = {}
       THEN api' = [api EXCEPT !.pc = "settled", !.method = m,
                               !.path = path, !.arg = arg, !.sent = <<>>,
                               !.answer = {},
                               !.result = {Rejected(NotInitialized)}]
       ELSE api' = [api EXCEPT !.pc = "pending", !.method = m,
                               !.path = path, !.arg = arg, !.answer = {},
                               !.result = {}, !.via = api.instance,
                               !.sent = <<TransportCall(m, path, arg)>>]
  /\ UNCHANGED <<state, calls, made, other>>

\* variant: the wrapper resolves with the whole response
TransportResolvesEnvelope(env) ==
  /\ api.pc = "pending"
  /\ api' = [api EXCEPT !.pc = "settled", !.answer = {Resolved(env)},
                        !.result = {Resolved(env)}]
  /\ UNCHANGED <<state, calls, made, other>>

\* the transport call resolves: the wrapper resolves with response.data
TransportResolves(env) ==
  /\ api.pc = "pending"
  /\ api' = [api EXCEPT !.pc = "settled", !.answer = {Resolved(env)},
                        !.result = {Resolved(env.data)}]
  /\ UNCHANGED <<state, calls, made, other>>

\* the transport call fails: the wrapper rejects with the normalized failure
TransportRejects(f) ==
  /\ api.pc = "pending"
  /\ api' = [api EXCEPT !.pc = "settled", !.answer = {Rejected(f)},
                        !.result = {Rejected(HandleError(f))}]
  /\ UNCHANGED <<state, calls, made, other>>

\* the caller has observed the settled wrapper call
WrapperDone ==
  /\ api.pc = "settled"
  /\ api' = [InitialApi EXCEPT !.instance = api.instance,
                               !.config = api.config,
                               !.replaced = api.replaced]
  /\ UNCHANGED <<state, calls, made, other>>

WrapperPaths == {Endpoint, ItemPath(1)}

WrapperArgs == {NotGiven, Given(EmptyParams), Given(PageParams), Given(Payload)}

NextApi ==
  \/ \E cfg \in Configs : InitApiClient(cfg)
  \/ \E m \in WrapperMethods, path \in WrapperPaths, arg \in WrapperArgs :
       WrapperCall(m, path, arg)
  \/ \E env \in Envelopes : TransportResolves(env)
  \/ \E f \in Failures : TransportRejects(f)
  \/ WrapperDone

\* the wrapper used on its own
SpecApi == Init /\ [][NextApi]_vars

\* ------------------------------------------------------------------------
\* Specifications
\* ------------------------------------------------------------------------
\* The inputs of a specification: the arguments the caller passes and the
\* answers the wrapper gives.
SeqInputs ==
  [ params     |-> {EmptyParams, PageParams},
    ids        |-> Ids,
    bodies     |-> AllBodies \cup {NullBody},
    resources  |-> Resources,
    mutated    |-> Resources \cup {Undefined},
    rejections |-> Rejections ]

OverlapInputs ==
  [ params     |-> {EmptyParams},
    ids        |-> {1},
    bodies     |-> SampleBodies \cup {NullBody},
    resources  |-> {Resource(1)},
    mutated    |-> {Resource(1)},
    rejections |-> Rejections ]

\* one answer of each kind: enough to tell whether an action settles
LiveInputs ==
  [ params     |-> {EmptyParams},
    ids        |-> {1},
    bodies     |-> { ListBody({<<Resource(1)>>}, {}, {}, {}) },
    resources  |-> {Resource(1)},
    mutated    |-> {Resource(1)},
    rejections |-> { ErrorObj("No response from server") } ]

\* the steps of the invocation in slot p
Step(p, in) ==
  \/ \E params \in in.params : FetchAll(p, params)
  \/ \E id \in in.ids : FetchOne(p, id)
  \/ Create(p, Payload)
  \/ \E id \in in.ids : Update(p, id, Payload)
  \/ \E id \in in.ids : Remove(p, id)
  \/ \E data \in in.bodies : FetchAllSuccess(p, data)
  \/ \E e \in in.rejections : FetchAllFailure(p, e)
  \/ \E data \in in.resources : FetchOneSuccess(p, data)
  \/ \E e \in in.rejections : FetchOneFailure(p, e)
  \/ \E data \in in.mutated : MutationSuccess(p, data)
  \/ \E e \in in.rejections : MutationFailure(p, e)
  \/ RefetchStart(p)
  \/ \E data \in in.bodies : RefetchSuccess(p, data)
  \/ \E e \in in.rejections : RefetchFailure(p, e)
  \/ MutationReturn(p)
  \/ Release(p)

\* up to MaxCalls overlapping invocations on the store
Next == \E p \in Procs : Step(p, OverlapInputs)

Spec == Init /\ [][Next]_vars

\* a caller that awaits every action before it invokes the next one, with
\* every argument and every answer within the bounds
NextSeq == Step(1, SeqInputs)

SpecSeq == Init /\ [][NextSeq]_vars

\* the steps that follow the invocation in slot p: its wrapper calls settle
\* and its continuations run
Continue(p, in) ==
  \/ \E data \in in.bodies : FetchAllSuccess(p, data)
  \/ \E e \in in.rejections : FetchAllFailure(p, e)
  \/ \E data \in in.resources : FetchOneSuccess(p, data)
  \/ \E e \in in.rejections : FetchOneFailure(p, e)
  \/ \E data \in in.mutated : MutationSuccess(p, data)
  \/ \E e \in in.rejections : MutationFailure(p, e)
  \/ RefetchStart(p)
  \/ \E data \in in.bodies : RefetchSuccess(p, data)
  \/ \E e \in in.rejections : RefetchFailure(p, e)
  \/ MutationReturn(p)
  \/ Release(p)

\* Every wrapper call settles and every continuation that can run does run.
\* The fairness is strong because a continuation is disabled only during the
\* synchronous block of another action, which always ends.
NextLive == \E p \in Procs : Step(p, LiveInputs)

SpecLive ==
  /\ Init
  /\ [][NextLive]_vars
  /\ \A p \in Procs : SF_vars(Continue(p, LiveInputs))

\* one caller on a store made with any of the second arguments
InitMake == \E arg \in SecondArgs : InitWith(arg)

CustomValues == {"initial", "updated"}

NextMake ==
  \/ Step(1, OverlapInputs)
  \/ \E value \in CustomValues : CustomAction(value)

SpecMake == InitMake /\ [][NextMake]_vars

\* the same, with a fetchAll installed through the state-setter at any moment
InstalledFunctions == { ActionFn("customFetchAll"), ActionFn("fetchAll") }

NextInstall ==
  \/ NextMake
  \/ \E fn \in InstalledFunctions : InstallFetchAll(fn)

SpecInstall == InitMake /\ [][NextInstall]_vars

\* two stores of the same factory used side by side: the slots with an odd
\* number invoke the actions of the first store, the others those of the
\* second
SlotStore(p) == IF p % 2 = 1 THEN 1 ELSE 2

InitTwo ==
  /\ made = [arg |-> Undefined, threw |-> CreateGenericStore(Undefined).threw]
  /\ state = CreateGenericStore(Undefined).state
  /\ other = CreateGenericStore(Undefined).state
  /\ calls = [p \in Procs |-> [IdleCall EXCEPT !.store = SlotStore(p)]]
  /\ api = InitialApi

SpecTwo == InitTwo /\ [][NextLive]_vars

\* one caller on a store while initApiClient is called again at any moment
InitReinit ==
  \E cfg \in Configs :
    /\ made = [arg |-> Undefined, threw |-> CreateGenericStore(Undefined).threw]
    /\ state = CreateGenericStore(Undefined).state
    /\ other = CreateGenericStore(Undefined).state
    /\ calls = [p \in Procs |-> IdleCall]
    /\ api = [InitialApi EXCEPT !.instance = {CreateTransport(cfg)},
                                !.config = {cfg}]

NextReinit ==
  \/ Step(1, LiveInputs)
  \/ \E cfg \in Configs : InitApiClient(cfg)

SpecReinit == InitReinit /\ [][NextReinit]_vars

TypeOK ==
  /\ made.threw = {}
  /\ state.loading \in BOOLEAN
  /\ state.item \in Resources \cup {Null}
  /\ \A p \in Procs : calls[p].pc \in
       {"idle", "await", "reset", "refetch", "resume", "done"}

\* ------------------------------------------------------------------------
\* Steps and situations the properties speak about
\* ------------------------------------------------------------------------
\* slot p starts an action in this step
Invoked(p) == calls[p].pc = "idle" /\ calls'[p].pc = "await"

\* slot p triggers its refetch in this step
RefetchTriggered(p) == calls[p].pc = "reset" /\ calls'[p].pc = "refetch"

\* the promise of slot p settles in this step
Settles(p) == calls[p].pc # "done" /\ calls'[p].pc = "done"

\* the get of the refetch of slot p settles in this step
RefetchCompletes(p) == calls[p].pc = "refetch" /\ calls'[p].pc = "resume"

\* the mutation call of slot p is rejected in this step
MutationFails(p) ==
  /\ calls[p].kind \in Mutating
  /\ calls[p].pc = "await"
  /\ calls'[p].main = "fail"

\* a wrapper call of slot p is rejected in this step
WrapperFails(p) ==
  \/ calls[p].main = "none" /\ calls'[p].main = "fail"
  \/ calls[p].refetch = "none" /\ calls'[p].refetch = "fail"

\* the positions of the get calls in a log of wrapper calls
Gets(log) == { i \in 1 .. Len(log) : log[i].method = "get" }

\* slot p issues a get in this step
IssuesGet(p) ==
  Cardinality(Gets(calls'[p].log)) > Cardinality(Gets(calls[p].log))

\* slot p is waiting for a wrapper call
AwaitsWrapper(p) == calls[p].pc \in {"await", "refetch"}

\* the promise of slot p has just settled
Done(p) == calls[p].pc = "done"

MethodOf(kind) ==
  IF kind = "create" THEN "post"
  ELSE IF kind = "update" THEN "put"
  ELSE IF kind = "remove" THEN "delete"
  ELSE "get"

\* ------------------------------------------------------------------------
\* Properties
\* ------------------------------------------------------------------------

\* C1: in the state reached by invoking any base action (and by the fetchAll
\* a mutating action invokes as its refetch), loading is true and error is
\* null, whatever they were in the state before.
C1_StartSetsLoading ==
  [][ \A p \in Procs :
        (Invoked(p) \/ RefetchTriggered(p)) =>
          /\ state'.loading = TRUE
          /\ state'.error = Null ]_vars

\* an action was invoked while another one was already in flight (loading
\* was true before), and nothing has settled since
C1_Witness ==
  \E p, q \in Procs :
    /\ p # q
    /\ calls[p].pc = "await" /\ calls[q].pc = "await"
    /\ state.loading = TRUE /\ state.error = Null

\* C2 as stated: whenever the promise of a base action has just settled,
\* loading is false.
C2_Original ==
  \A p \in Procs : Done(p) => state.loading = FALSE

\* C2 amended: loading is false when fetchAll or fetchOne settles and when
\* create, update or remove settles on its failure path; on the success path
\* of create, update and remove loading is false when the refetch completes,
\* and still false when the promise settles if no other action overlapped.
C2_Amended ==
  [][ \A p \in Procs :
        /\ (Settles(p) /\ (calls[p].kind \notin Mutating \/ MutationFails(p)))
             => state'.loading = FALSE
        /\ RefetchCompletes(p) => state'.loading = FALSE
        /\ (Settles(p) /\ calls'[p].solo) => state'.loading = FALSE ]_vars

\* a mutating action that overlapped another one has settled on its success
\* path
C2_Witness ==
  \E p \in Procs :
    /\ Done(p) /\ calls[p].kind \in Mutating
    /\ calls[p].main = "ok" /\ calls[p].refetch = "ok"
    /\ ~calls[p].solo
    /\ state.loading = FALSE

C4_NeverRejects ==
  [][ \A p \in Procs :
        /\ WrapperFails(p) =>
             /\ state'.error.t = "error"
             /\ state'.loading = FALSE
        /\ Settles(p) => calls'[p].settled = "resolved" ]_vars

\* an action has resolved after its wrapper call was rejected with a value
\* that is not an error object
C4_Witness ==
  \E p \in Procs :
    /\ Done(p) /\ calls[p].main = "fail"
    /\ calls[p].resp.t = "plain"
    /\ calls[p].settled = "resolved"
    /\ state.error = ErrorObj("[object Object]")
    /\ state.loading = FALSE

\* the mutation call of slot p resolved
MutationOk(p) == calls[p].kind \in Mutating /\ calls[p].main = "ok"

\* the get of the refetch of slot p resolved with an object
RefetchAnswered(p) == calls[p].refetch = "ok" /\ calls[p].resp.isObject

RefetchRequest == Request("get", Endpoint, Given(EmptyParams))

\* items and meta of the store are those of the list response data
ShowsList(st, data) ==
  /\ st.items = ItemsOf(data)
  /\ st.meta = MetaOf(data)

\* C5 as stated: when the promise of a create, update or remove whose
\* mutation call succeeded has settled, the action has issued exactly the
\* mutation call followed by one get of the endpoint with empty params, and
\* items and meta are those of the response to that get (read for the case
\* that the get was answered).
C5_Original ==
  \A p \in Procs :
    (Done(p) /\ MutationOk(p)) =>
      /\ Len(calls[p].log) = 2
      /\ calls[p].log[1].method = MethodOf(calls[p].kind)
      /\ calls[p].log[2] = RefetchRequest
      /\ RefetchAnswered(p) => ShowsList(state, calls[p].resp)

\* C5 amended: such an action issues exactly the mutation call followed by
\* one get of the endpoint with empty params, the get only after the
\* mutation call has resolved; if that get resolves with an object, items
\* and meta are those of its response when the refetch completes, and still
\* when the promise settles if no other action overlapped.
C5_Amended ==
  [][ \A p \in Procs :
        /\ (calls'[p].pc = "done" /\ calls'[p].kind \in Mutating
              /\ calls'[p].main = "ok") =>
             /\ Len(calls'[p].log) = 2
             /\ calls'[p].log[1].method = MethodOf(calls'[p].kind)
             /\ calls'[p].log[2] = RefetchRequest
        /\ (calls[p].kind \in Mutating /\ IssuesGet(p)) =>
             /\ calls[p].pc = "reset"
             /\ calls[p].main = "ok"
        /\ (RefetchCompletes(p) /\ calls'[p].refetch = "ok"
              /\ calls'[p].resp.isObject) =>
             ShowsList(state', calls'[p].resp)
        /\ (Settles(p) /\ calls'[p].kind \in Mutating /\ calls'[p].solo
              /\ calls'[p].refetch = "ok" /\ calls'[p].resp.isObject) =>
             ShowsList(state', calls'[p].resp) ]_vars

\* an update has settled after its refetch brought a list of two resources
C5_Witness ==
  \E p \in Procs :
    /\ Done(p) /\ calls[p].kind = "update"
    /\ MutationOk(p) /\ RefetchAnswered(p)
    /\ Len(state.items) = 2
    /\ ShowsList(state, calls[p].resp)

\* C6: when the mutation call of create, update or remove is rejected, the
\* action has issued no get, error becomes the failure (as an error object),
\* loading becomes false, and the step leaves items, item and meta as they
\* are; the invocation step leaves them as they are too.
C6_FailureLeavesData ==
  [][ \A p \in Procs :
        /\ MutationFails(p) =>
             /\ Gets(calls'[p].log) = {}
             /\ Settles(p)
             /\ state'.error = ToError(calls'[p].resp)
             /\ state'.loading = FALSE
             /\ state'.items = state.items
             /\ state'.item = state.item
             /\ state'.meta = state.meta
        /\ Invoked(p) =>
             /\ state'.items = state.items
             /\ state'.item = state.item
             /\ state'.meta = state.meta ]_vars

\* a remove has failed in a store that holds a fetched list and a fetched
\* resource
C6_Witness ==
  \E p \in Procs :
    /\ Done(p) /\ calls[p].kind = "remove" /\ calls[p].main = "fail"
    /\ state.items # <<>> /\ state.item # Null
    /\ state.meta # InitialMeta
    /\ state.error # Null

\* C7: create and update resolve with the resource their post or put
\* resolved with, also when the refetch fails, and with undefined when the
\* post or put was rejected.
C7_ReturnsResource ==
  \A p \in Procs :
    (Done(p) /\ calls[p].kind \in {"create", "update"}) =>
      /\ calls[p].settled = "resolved"
      /\ calls[p].main = "ok" => calls[p].ret = calls[p].data
      /\ calls[p].main = "fail" => calls[p].ret = Undefined

\* an update has resolved with the second resource
C7_Witness ==
  \E p \in Procs :
    /\ Done(p) /\ calls[p].kind = "update" /\ calls[p].main = "ok"
    /\ calls[p].ret = Resource(MaxId)

\* C8: the refetch is triggered only by an action whose mutation call has
\* resolved and which has reset loading, from a state with loading = false;
\* the reset happens in the step in which the mutation call resolves; an
\* action whose mutation call was rejected never issues a get.
C8_ResetBeforeRefetch ==
  [][ \A p \in Procs :
        /\ RefetchTriggered(p) =>
             /\ calls[p].main = "ok"
             /\ state.loading = FALSE
        /\ (calls[p].kind \in Mutating /\ calls[p].pc = "await"
              /\ calls'[p].main = "ok") =>
             /\ calls'[p].pc = "reset"
             /\ state'.loading = FALSE
             /\ Gets(calls'[p].log) = {}
        /\ (calls'[p].kind \in Mutating /\ calls'[p].main = "fail") =>
             Gets(calls'[p].log) = {} ]_vars

\* an action waits for the get of its refetch while another action is in
\* flight
C8_Witness ==
  \E p, q \in Procs :
    /\ p # q
    /\ calls[p].pc = "refetch" /\ MutationOk(p)
    /\ Len(calls[p].log) = 2
    /\ calls[q].pc = "await"

\* the value of an optional field that is present
Val(o) == CHOOSE v \in o : TRUE

\* a fetchAll has just settled after its get resolved with an object
ListFetched(p) ==
  /\ Done(p) /\ calls[p].kind = "fetchAll"
  /\ calls[p].main = "ok" /\ calls[p].resp.isObject

\* C9 as stated: after a successful fetchAll, meta.totalCount is the
\* response's total_count if the response carries one, and otherwise the
\* length of the fetched list (0 without a list).
C9_TotalCountFromResponse ==
  \A p \in Procs :
    ListFetched(p) =>
      LET data == calls[p].resp IN
        state.meta.totalCount =
          IF data.total_count # {} THEN Val(data.total_count)
          ELSE IF data.objects # {} THEN Len(Val(data.objects))
          ELSE 0

\* C10 as stated: after a successful fetchAll, items is the response's list
\* or empty without one, meta.currentPage and meta.totalPages are the
\* response's current_page and num_pages, each 1 when the field is absent,
\* and loading is false.
C10_ListAndPagesFromResponse ==
  \A p \in Procs :
    ListFetched(p) =>
      LET data == calls[p].resp IN
        /\ state.items = IF data.objects # {} THEN Val(data.objects) ELSE <<>>
        /\ state.meta.currentPage =
             IF data.current_page # {} THEN Val(data.current_page) ELSE 1
        /\ state.meta.totalPages =
             IF data.num_pages # {} THEN Val(data.num_pages) ELSE 1
        /\ state.loading = FALSE

\* the get of a fetchAll of slot p (invoked directly or as a refetch) is
\* rejected in this step
FetchAllGetFails(p) ==
  \/ calls[p].kind = "fetchAll" /\ calls[p].pc = "await"
       /\ calls'[p].main = "fail"
  \/ calls[p].pc = "refetch" /\ calls'[p].refetch = "fail"

\* C11: in the step in which the get of a fetchAll is rejected, error becomes
\* the failure (as an error object), loading becomes false, and items and
\* meta stay as they are; the step that starts the fetchAll leaves items and
\* meta as they are too, so a list loaded earlier survives the failed call.
C11_FetchAllFailureLeavesList ==
  [][ \A p \in Procs :
        /\ FetchAllGetFails(p) =>
             /\ state'.error = ToError(calls'[p].resp)
             /\ state'.loading = FALSE
             /\ state'.items = state.items
             /\ state'.meta = state.meta
        /\ (Invoked(p) \/ RefetchTriggered(p)) =>
             /\ state'.items = state.items
             /\ state'.meta = state.meta ]_vars

\* a fetchAll has failed in a store that holds the list and the meta of an
\* earlier successful fetchAll
C11_Witness ==
  \E p \in Procs :
    /\ Done(p) /\ calls[p].kind = "fetchAll" /\ calls[p].main = "fail"
    /\ Len(state.items) = 2 /\ state.meta.totalPages = 2
    /\ state.error = ToError(calls[p].resp)
    /\ state.loading = FALSE

\* C12 as stated: when a fetchOne has settled after its get was rejected,
\* item is null whatever it held before, error is the failure (as an error
\* object) and loading is false.
C12_FetchOneFailureClearsItem ==
  \A p \in Procs :
    (Done(p) /\ calls[p].kind = "fetchOne" /\ calls[p].main = "fail") =>
      /\ state.item = Null
      /\ state.error = ToError(calls[p].resp)
      /\ state.loading = FALSE

\* the get of a fetchOne of slot p resolves in this step
FetchOneGetSucceeds(p) ==
  /\ calls[p].kind = "fetchOne" /\ calls[p].pc = "await"
  /\ calls'[p].main = "ok"

\* C13: in the step in which the get of a fetchOne resolves, item becomes
\* the response and loading becomes false, while items and meta stay as they
\* are; the action then settles with that state.
C13_FetchOneSuccessSetsItem ==
  [][ \A p \in Procs :
        FetchOneGetSucceeds(p) =>
          /\ Settles(p)
          /\ state'.item = calls'[p].resp
          /\ state'.loading = FALSE
          /\ state'.items = state.items
          /\ state'.meta = state.meta ]_vars

\* a fetchOne has brought the second resource into a store that holds a
\* fetched list
C13_Witness ==
  \E p \in Procs :
    /\ Done(p) /\ calls[p].kind = "fetchOne" /\ calls[p].main = "ok"
    /\ state.item = Resource(MaxId) /\ calls[p].resp = Resource(MaxId)
    /\ Len(state.items) = 2 /\ state.meta # InitialMeta
    /\ state.loading = FALSE

\* every wrapper call the action in slot p made has resolved
SuccessPath(p) ==
  /\ calls[p].main = "ok"
  /\ calls[p].kind \in Mutating => calls[p].refetch = "ok"

\* the list response the action in slot p read, if it read one, was an
\* object
ListIsObject(p) ==
  calls[p].kind # "fetchOne" => calls[p].resp.isObject

\* C14 as stated: whenever a base action has just settled and every wrapper
\* call it made resolved (the get of the refetch included), error is null.
C14_Original ==
  \A p \in Procs :
    (Done(p) /\ SuccessPath(p)) => state.error = Null

\* C14 amended: whenever a base action has just settled, every wrapper call
\* it made resolved, the list response it read (if any) was an object, and
\* no other action was in flight at any time since it was invoked, error is
\* null.
C14_Amended ==
  \A p \in Procs :
    (Done(p) /\ SuccessPath(p) /\ ListIsObject(p) /\ calls[p].solo) =>
      state.error = Null

\* a create that never overlapped another action has settled after its post
\* and the get of its refetch resolved
C14_Witness ==
  \E p \in Procs :
    /\ Done(p) /\ calls[p].kind = "create"
    /\ SuccessPath(p) /\ ListIsObject(p) /\ calls[p].solo
    /\ Len(state.items) = 2
    /\ state.error = Null

\* a fetchOne has settled on its success path while the error of an
\* overlapping action is stored
C14_OverlapCase ==
  \E p \in Procs :
    /\ Done(p) /\ calls[p].kind = "fetchOne" /\ SuccessPath(p)
    /\ ~calls[p].solo
    /\ state.error # Null

\* a wrapper call of slot p settles in this step: a completion step
Completes(p) ==
  /\ calls[p].pc \in {"await", "refetch"}
  /\ calls'[p].pc # calls[p].pc

\* C15: error goes from a stored error to null only in a step that starts an
\* action (an invocation, or the fetchAll a mutating action invokes as its
\* refetch); a completion step of any action, success or failure, and the
\* return of a mutating action leave a stored error stored.
C15_ErrorClearedOnlyAtStart ==
  [][ /\ (state.error # Null /\ state'.error = Null) =>
           \E p \in Procs : Invoked(p) \/ RefetchTriggered(p)
      /\ \A p \in Procs :
           ((Completes(p) \/ Settles(p)) /\ state.error # Null) =>
             state'.error # Null ]_vars

\* a fetchAll has completed successfully and the error stored by an
\* overlapping action is still there
C15_Witness ==
  \E p \in Procs :
    /\ ListFetched(p) /\ ~calls[p].solo
    /\ ShowsList(state, calls[p].resp)
    /\ state.error # Null

\* the get of a fetchAll of slot p (invoked directly or as a refetch)
\* resolves with an object in this step
FetchAllGetSucceeds(p) ==
  /\ \/ calls[p].kind = "fetchAll" /\ calls[p].pc = "await"
          /\ calls'[p].main = "ok"
     \/ calls[p].pc = "refetch" /\ calls'[p].refetch = "ok"
  /\ calls'[p].resp.isObject

\* the action in slot p takes a step
Moves(p) == calls'[p].pc # calls[p].pc

\* C16: items and meta change only in the step in which the get of a
\* fetchAll (invoked directly or as a refetch) resolves; the steps of create,
\* update and remove up to the refetch, the steps of fetchOne, and every step
\* in which a wrapper call is rejected leave them as they are.
C16_ListWrittenOnlyByFetchAll ==
  [][ /\ (state'.items # state.items \/ state'.meta # state.meta) =>
           \E p \in Procs : FetchAllGetSucceeds(p)
      /\ \A p \in Procs :
           (\/ WrapperFails(p)
            \/ Moves(p) /\ calls'[p].kind = "fetchOne"
            \/ Moves(p) /\ calls'[p].kind \in Mutating
                 /\ calls[p].pc \in {"idle", "await", "reset", "resume"}) =>
             /\ state'.items = state.items
             /\ state'.meta = state.meta ]_vars

\* the refetch of a remove has just replaced the list, and the remove has
\* not resumed yet
C16_Witness ==
  \E p \in Procs :
    /\ calls[p].pc = "resume" /\ calls[p].kind = "remove"
    /\ RefetchAnswered(p)
    /\ Len(state.items) = 2
    /\ ShowsList(state, calls[p].resp)

\* C17: a step of one action leaves the position and the issued calls of
\* every other action as they are (no action is cancelled or held back by
\* another); the completion writes of a fetchAll are applied in the step in
\* which its own get settles, so that, also when fetchAll calls overlap, at
\* the moment a fetchAll settles items and meta are those of its response:
\* the response that arrives last determines the final list.
C17_LastWriteWins ==
  [][ \A p \in Procs :
        /\ Moves(p) =>
             \A q \in Procs \ {p} :
               /\ calls'[q].pc = calls[q].pc
               /\ calls'[q].log = calls[q].log
        /\ FetchAllGetSucceeds(p) => ShowsList(state', calls'[p].resp)
        /\ (calls'[p].pc = "done" /\ calls'[p].kind = "fetchAll"
              /\ calls'[p].main = "ok" /\ calls'[p].resp.isObject) =>
             ShowsList(state', calls'[p].resp) ]_vars

\* of two overlapping fetchAll calls the one with the longer list has just
\* settled and its list is shown, while the other one is still waiting for
\* its get
C17_Witness ==
  \E p, q \in Procs :
    /\ p # q
    /\ ListFetched(p) /\ Len(ItemsOf(calls[p].resp)) = 2
    /\ ShowsList(state, calls[p].resp)
    /\ calls[q].kind = "fetchAll" /\ calls[q].pc = "await"

\* C18: under the assumption that every wrapper call settles, every invoked
\* action settles, whatever other actions are invoked while it is in flight.
C18_EveryActionSettles ==
  \A p \in Procs : (calls[p].pc = "await") ~> Done(p)

\* two actions are in flight together: a fetchOne waits for its get and a
\* mutating action waits for the get of its refetch
C18_Witness ==
  \E p, q \in Procs :
    /\ p # q
    /\ calls[p].pc = "await" /\ calls[p].kind = "fetchOne"
    /\ calls[q].pc = "refetch"
    /\ state.loading = TRUE

\* the store was asked for with a selection that leaves some base action out
RestrictedSelection ==
  /\ made.arg.t = "options"
  /\ made.arg.actions # BaseActions

\* C19 as stated: a store asked for with a restricted selection of actions
\* (with or without an extension) is produced, every base action outside the
\* selection is absent from its state, and every selected action is a
\* function of its state.
C19_SelectionRestrictsActions ==
  RestrictedSelection =>
    /\ made.threw = {}
    /\ \A a \in BaseActions :
         IF a \in made.arg.actions
           THEN HasAction(state, a)
           ELSE a \notin DOMAIN state

\* C20 as stated: in a store asked for with a selection that holds create,
\* update or remove but not fetchAll, a mutating action whose mutation call
\* resolved resolves, having issued its mutation call and no get.
C20_NoRefetchWithoutFetchAll ==
  (RestrictedSelection /\ "fetchAll" \notin made.arg.actions
     /\ made.arg.actions \cap Mutating # {}) =>
    /\ made.threw = {}
    /\ \A p \in Procs :
         (Done(p) /\ MutationOk(p)) =>
           /\ calls[p].settled = "resolved"
           /\ Len(calls[p].log) = 1
           /\ calls[p].log[1].method = MethodOf(calls[p].kind)
           /\ Gets(calls[p].log) = {}

\* the store was made without a second argument
NoOptions == made.arg = Undefined /\ made.threw = {}

\* the five base fields of st have their initial values
BaseFieldsInitial(st) ==
  /\ st.items = <<>>
  /\ st.item = Null
  /\ st.loading = FALSE
  /\ st.error = Null
  /\ st.meta = [currentPage |-> 1, totalPages |-> 1, totalCount |-> 0]

\* C21: a store made without options starts with items empty, item null,
\* loading false, error null and meta {1, 1, 0}; it has the five base
\* actions as functions, from the start and for as long as it is used.
C21_DefaultStore ==
  /\ NoOptions => BaseFieldsInitial(state)
  /\ [](NoOptions => \A a \in BaseActions : HasAction(state, a))

\* the first action invoked on a new store made without options waits for
\* its wrapper call, and the data fields are still the initial ones
C21_Witness ==
  /\ NoOptions
  /\ calls[1].pc = "await" /\ calls[1].kind = "remove"
  /\ \A q \in Procs \ {1} : calls[q] = IdleCall
  /\ state.items = <<>> /\ state.item = Null /\ state.meta = InitialMeta
  /\ \A a \in BaseActions : HasAction(state, a)

\* the store was made with an extendStore function
ExtensionGiven == made.threw = {} /\ made.arg.t = "function"

\* the names of the state that hold functions
FunctionNames == BaseActions \cup {"customAction"}

\* C22: in a store made with an extension, the state starts with every field
\* and function the extension returned, with the extension's value also
\* where the name is one of a base field or base action; the extension's
\* names stay in the state and its functions stay the ones in the state.
C22_ExtensionOverBase ==
  /\ ExtensionGiven =>
       \A k \in DOMAIN made.arg.returns :
         k \in DOMAIN state /\ state[k] = made.arg.returns[k]
  /\ [](ExtensionGiven =>
         \A k \in DOMAIN made.arg.returns :
           /\ k \in DOMAIN state
           /\ k \in FunctionNames => state[k] = made.arg.returns[k])

\* in a store whose extension replaces loading and fetchAll, a create has
\* settled after the fetchAll of the extension ran in place of the refetch
C22_Witness ==
  /\ ExtensionGiven
  /\ made.arg = CollidingExtension
  /\ state.fetchAll = ActionFn("customFetchAll")
  /\ Done(1) /\ calls[1].kind = "create" /\ calls[1].main = "ok"
  /\ Gets(calls[1].log) = {}

\* the extension's action changes its field in this step
CustomActs ==
  /\ "customState" \in DOMAIN state
  /\ state'.customState # state.customState

\* C23: a step in which the extension's action sets its field through the
\* state-setter changes that field only: every base field, every base action
\* and every other extension field keeps its value; and no step of any
\* action removes a name from the state.
C23_SetMerges ==
  [][ /\ DOMAIN state' = DOMAIN state
      /\ CustomActs =>
           \A k \in DOMAIN state \ {"customState"} : state'[k] = state[k]
    ]_vars

\* the extension's action has set its field in a store that holds a fetched
\* list and a fetched resource while a base action is in flight
C23_Witness ==
  /\ ExtensionGiven
  /\ state.customState = StringVal("updated")
  /\ Len(state.items) = 2 /\ state.item # Null
  /\ calls[1].pc = "await" /\ state.loading = TRUE
  /\ HasAction(state, "customAction") /\ HasAction(state, "remove")

\* C24: in every step in which a wrapper call of a base action is rejected
\* (its own call or the get of its refetch), a rejected value that is an
\* error object becomes the stored error as it is, and any other rejected
\* value is stored as a new error object whose message is the value's
\* string form ("[object Object]" for a plain response body); whatever the
\* step, the stored error is null or an error object.
C24_StoredErrorIsErrorObject ==
  [][ /\ state'.error.t \in {"null", "error"}
      /\ \A p \in Procs :
           WrapperFails(p) =>
             LET v == calls'[p].resp IN
               /\ v.t = "error" => state'.error = v
               /\ v.t # "error" =>
                    /\ state'.error.t = "error"
                    /\ state'.error.message = JSString(v)
               /\ v.t = "plain" =>
                    state'.error.message = "[object Object]" ]_vars

\* the get of the refetch of an update was rejected with a plain response
\* body, and the store holds the error object made from it
C24_Witness ==
  \E p \in Procs :
    /\ calls[p].pc = "resume" /\ calls[p].kind = "update"
    /\ calls[p].refetch = "fail" /\ calls[p].resp = PlainObj(1)
    /\ state.error = ErrorObj("[object Object]")

\* C25: a step of an action of one store, whether it starts the action,
\* completes it or fails, leaves every field of the other store as it is,
\* also while the other store has actions in flight.
C25_StoresIndependent ==
  [][ \A p \in Procs :
        Moves(p) =>
          /\ StoreOf(p) = 1 => other' = other
          /\ StoreOf(p) = 2 => state' = state ]_vars

\* both stores have an action in flight; the first holds the list of its
\* own fetchAll and no resource, the second a resource of its own fetchOne
\* and no list
C25_Witness ==
  \E p, q \in Procs :
    /\ calls[p].pc = "await" /\ StoreOf(p) = 1
    /\ calls[q].pc = "refetch" /\ StoreOf(q) = 2
    /\ state.loading = TRUE /\ Len(state.items) = 1 /\ state.item = Null
    /\ other.loading = TRUE /\ other.items = <<>> /\ other.item # Null

ItemScoped == {"fetchOne", "update", "remove"}

C27_TrailingSlash ==
  \A p \in Procs :
    \A i \in 1 .. Len(calls[p].log) :
      calls[p].log[i].path =
        IF i = 1 /\ calls[p].kind \in ItemScoped
          THEN <<"/test-items", "/", ToString(Val(calls[p].id)), "/">>
          ELSE <<"/test-items", "/">>

\* a wrapper method is called in this step
WrapperCalled == api.pc = "idle" /\ api'.pc # "idle"

\* C28: a call of any wrapper method made while initApiClient has never been
\* called rejects at once with the error that names the missing
\* initApiClient call, and makes no call on the transport.
C28_NotInitializedRejects ==
  [][ (api.instance = {} /\ WrapperCalled) =>
        /\ api'.pc = "settled"
        /\ api'.result =
             { Rejected(ErrorObj(
                 "apiClient not initialized. Call initApiClient(config) first.")) }
        /\ api'.sent = <<>> ]_vars

\* postFile was called before initApiClient and has been rejected
C28_Witness ==
  /\ api.instance = {}
  /\ api.pc = "settled" /\ api.method = "postFile"
  /\ api.result = {Rejected(NotInitialized)}
  /\ api.sent = <<>>

\* the pending transport call fails in this step, with failure f
FailsWith(f) == api.pc = "pending" /\ api'.answer = {Rejected(f)}

\* C29: a failed transport call is rejected, never resolved, with exactly one
\* of three values chosen by priority: the body of the server response when
\* the failure carries a response; otherwise an error with the message
\* 'No response from server' when it carries a request; otherwise an error
\* with the message 'Request failed: ' followed by the original message.
C29_FailureNormalized ==
  [][ \A f \in Failures :
        FailsWith(f) =>
          /\ api'.pc = "settled"
          /\ \A r \in api'.result : ~r.ok
          /\ \/ /\ f.response # {}
                /\ api'.result = { Rejected(r.data) : r \in f.response }
             \/ /\ f.response = {} /\ f.request
                /\ api'.result = { Rejected(ErrorObj("No response from server")) }
             \/ /\ f.response = {} /\ ~f.request
                /\ api'.result =
                     { Rejected(ErrorObj("Request failed: " \o f.message)) } ]_vars

\* a failure that carries both a response and a request was rejected with
\* the body of the response
C29_Witness ==
  /\ api.pc = "settled"
  /\ \E f \in Failures :
       /\ f.response # {} /\ f.request
       /\ api.answer = {Rejected(f)}
  /\ api.result = {Rejected(PlainObj(1))}

\* the four methods that go through the transport's request function
RequestMethods == {"get", "post", "put", "delete"}

\* the pending transport call resolves in this step, with envelope env
ResolvesWith(env) == api.pc = "pending" /\ api'.answer = {Resolved(env)}

\* C30: once initApiClient has been called, a call of get, post, put or
\* delete makes exactly one call on the transport, with the method of the
\* call, the given path, and the given params (get, delete; an empty object
\* when none are given) or the given body (post, put); no further transport
\* call is made until the call has settled; and when the transport call
\* resolves, the wrapper call resolves with the data of the response, not
\* with the response.
C30_OneTransportCall ==
  [][ /\ \A m \in RequestMethods, path \in WrapperPaths, arg \in WrapperArgs :
           ( /\ api.instance # {} /\ WrapperCalled
             /\ api'.method = m /\ api'.path = path /\ api'.arg = arg )
           => /\ Len(api'.sent) = 1
              /\ api'.sent[1].fn = "request"
              /\ api'.sent[1].method = m
              /\ api'.sent[1].url = path
              /\ api'.sent[1].key =
                   IF m \in {"get", "delete"} THEN "params" ELSE "data"
              /\ api'.sent[1].payload =
                   IF m \in {"get", "delete"} /\ arg = NotGiven
                     THEN Given({}) ELSE arg
      /\ api.pc = "pending" => api'.sent = api.sent
      /\ \A env \in Envelopes :
           ResolvesWith(env) =>
             /\ api'.pc = "settled"
             /\ api'.result = {Resolved(env.data)}
             /\ api'.result # {Resolved(env)} ]_vars

\* put(item path, body) made one request on the transport and resolved with
\* the data of the response
C30_Witness ==
  /\ api.instance # {}
  /\ api.pc = "settled" /\ api.method = "put"
  /\ api.sent = << [ fn |-> "request", method |-> "put", url |-> ItemPath(1),
                     key |-> "data", payload |-> Given(Payload),
                     headers |-> NoHeaders ] >>
  /\ api.answer = {Resolved(Envelope(201, Resource(MaxId)))}
  /\ api.result = {Resolved(Resource(MaxId))}

\* C31: initApiClient replaces the transport configuration as a whole.  A
\* request made after initApiClient calls goes through a transport that has
\* the base URL of the last call and, as headers, the default Content-Type
\* with the headers of the last call laid over it and nothing else: a header
\* given only in an earlier call is not among them.
C31_InitializeReplaces ==
  [][ (api.instance # {} /\ WrapperCalled) =>
        /\ api.config # {}
        /\ \A cfg \in api.config :
             /\ Cardinality(api'.via) = 1
             /\ \A t \in api'.via :
                  /\ t.baseURL = cfg.baseURL
                  /\ DOMAIN t.headers = {"Content-Type"} \cup DOMAIN cfg.headers
                  /\ \A k \in DOMAIN t.headers :
                       t.headers[k] = IF k \in DOMAIN cfg.headers
                                        THEN cfg.headers[k]
                                        ELSE "application/json" ]_vars

\* initApiClient was called with an X-Custom header and then without it, and
\* the request made afterwards does not carry X-Custom
C31_Witness ==
  /\ \E c \in api.replaced : "X-Custom" \in DOMAIN c.headers
  /\ \E c \in api.config : "X-Custom" \notin DOMAIN c.headers
  /\ api.pc = "pending"
  /\ \E t \in api.via :
       /\ t.baseURL = "http://test.com"
       /\ t.headers = [k \in {"Content-Type"} |-> "application/json"]

\* slot p issues a wrapper call in this step
Dispatches(p) == Invoked(p) \/ RefetchTriggered(p)

\* the transport made from the argument of the last initApiClient call
LastInitialized ==
  { [ baseURL |-> cfg.baseURL, withCredentials |-> TRUE,
      headers |-> [ k \in {"Content-Type"} \cup DOMAIN cfg.headers |->
                      IF k \in DOMAIN cfg.headers THEN cfg.headers[k]
                      ELSE "application/json" ] ] : cfg \in api.config }

\* C32: every wrapper call of an action goes through the transport made by
\* the last initApiClient call before the call is issued.  initApiClient
\* called while a wrapper call is in flight leaves the calls already issued
\* on their transport, and the calls issued afterwards, such as the refetch
\* get of a create whose post is already out, go through the new one.
C32_DispatchUsesLatestTransport ==
  [][ \A p \in Procs :
        /\ Dispatches(p) =>
             /\ Len(calls'[p].via) = Len(calls'[p].log)
             /\ calls'[p].via[Len(calls'[p].via)] = LastInitialized
        /\ (calls[p].pc # "idle" /\ calls'[p].pc # "idle") =>
             \A i \in 1 .. Len(calls[p].via) :
               calls'[p].via[i] = calls[p].via[i]
        /\ api'.config # api.config => calls'[p] = calls[p] ]_vars

\* the post of a create went out on the first transport, initApiClient was
\* called with another configuration while it was in flight, and the get of
\* the refetch went out on the second transport
C32_Witness ==
  /\ calls[1].kind = "create" /\ calls[1].pc = "refetch"
  /\ Len(calls[1].via) = 2
  /\ calls[1].log[1].method = "post" /\ calls[1].log[2].method = "get"
  /\ calls[1].via[1] = { CreateTransport(c) : c \in api.replaced }
  /\ calls[1].via[2] = { CreateTransport(c) : c \in api.config }
  /\ calls[1].via[1] # calls[1].via[2]
  /\ api.replaced # {}

\* the list and the paging data that the response b of a list endpoint gives
ListOfBody(b) == IF b.objects = {} THEN <<>> ELSE Val(b.objects)

MetaOfBody(b) ==
  [ currentPage |-> IF b.current_page \in {{}, {0}} THEN 1
                    ELSE Val(b.current_page),
    totalPages  |-> IF b.num_pages \in {{}, {0}} THEN 1 ELSE Val(b.num_pages),
    totalCount  |-> IF b.total_count \in {{}, {0}} THEN Len(ListOfBody(b))
                    ELSE Val(b.total_count) ]

\* C33: in every reachable state, also while actions overlap, the list and
\* the paging data of the store are either both at their initial values or
\* both taken from one and the same response of the list endpoint.
C33_ItemsAndMetaFromOneResponse ==
  \/ state.items = <<>> /\ state.meta = InitialMeta
  \/ \E b \in OverlapInputs.bodies :
       /\ b.isObject
       /\ state.items = ListOfBody(b)
       /\ state.meta = MetaOfBody(b)

\* a fetchAll that overlapped with another action has got the response with
\* two resources; the store holds the list and the paging data of that
\* response
C33_Witness ==
  /\ \E p \in Procs :
       /\ calls[p].kind = "fetchAll" /\ calls[p].pc = "done"
       /\ ~calls[p].solo /\ calls[p].main = "ok"
       /\ calls[p].resp =
            ListBody({<<Resource(1), Resource(MaxId)>>}, {2}, {2}, {MaxNum})
  /\ state.items = <<Resource(1), Resource(MaxId)>>
  /\ state.meta = [currentPage |-> 2, totalPages |-> 2, totalCount |-> MaxNum]

\* the get of the refetch of slot p is rejected in this step
RefetchGetFails(p) == calls[p].pc = "refetch" /\ calls'[p].refetch = "fail"

\* slot p holds a create, update or remove whose mutation call succeeded and
\* whose refetch get was rejected
RefetchFailed(c) ==
  c.kind \in {"create", "update", "remove"} /\ c.main = "ok" /\ c.refetch = "fail"

\* the error object stored for a rejected value
StoredFailure(v) ==
  IF v.t = "error" THEN v
  ELSE [t |-> "error", message |-> "[object Object]"]

\* C34 as stated: when a create, update or remove whose mutation call
\* succeeded and whose refetch get was rejected resolves, create and update
\* resolve with the resource their post or put returned, and at that moment
\* error is the refetch failure (as an error object) and loading is false.
C34_Original ==
  [][ \A p \in Procs :
        (Settles(p) /\ RefetchFailed(calls[p])) =>
          /\ calls'[p].settled = "resolved"
          /\ calls'[p].ret = IF calls[p].kind = "remove" THEN Undefined
                              ELSE calls[p].data
          /\ state'.error = StoredFailure(calls[p].resp)
          /\ state'.loading = FALSE ]_vars

\* C34, amended: when the mutation call of create, update or remove has
\* succeeded and the get of its refetch is rejected, the step that handles
\* the rejection sets error to the failure (as an error object) and loading
\* to false and leaves items and meta as they are, as do all other steps of
\* such an action; the action then resolves, create and update with the
\* resource their post or put returned, remove with nothing; and if no other
\* action of the store overlapped it, error is still the refetch failure
\* and loading is still false when it resolves.
C34_Amended ==
  [][ \A p \in Procs :
        /\ RefetchGetFails(p) =>
             /\ RefetchFailed(calls'[p])
             /\ state'.error = StoredFailure(calls'[p].resp)
             /\ state'.loading = FALSE
        /\ (Moves(p) /\ calls[p].kind \in {"create", "update", "remove"}
              /\ calls'[p].refetch # "ok") =>
             /\ state'.items = state.items
             /\ state'.meta = state.meta
        /\ (Settles(p) /\ RefetchFailed(calls[p])) =>
             /\ calls'[p].settled = "resolved"
             /\ calls'[p].ret = IF calls[p].kind = "remove" THEN Undefined
                                 ELSE calls[p].data
             /\ calls[p].kind # "remove" => calls[p].data \in OverlapInputs.mutated
             /\ calls'[p].solo =>
                  /\ state'.error = StoredFailure(calls[p].resp)
                  /\ state'.loading = FALSE ]_vars

\* a create whose post returned a resource and whose refetch get was rejected
\* has resolved with that resource; the store shows the failure and is not
\* loading
C34_Witness ==
  \E p \in Procs :
    /\ Done(p) /\ calls[p].kind = "create"
    /\ calls[p].main = "ok" /\ calls[p].refetch = "fail"
    /\ calls[p].settled = "resolved" /\ calls[p].ret = Resource(1)
    /\ state.error = ErrorObj("No response from server")
    /\ state.loading = FALSE

\* slot p calls the refetch in this step
RefetchCalled(p) == calls[p].pc = "reset" /\ calls'[p].pc # "reset"

\* C35: the refetch of create, update and remove calls the function that the
\* state of the store holds under fetchAll at the moment the mutation call
\* has succeeded.  When that is the base fetchAll, a get on the endpoint goes
\* out; when the extension has supplied another function or another one has
\* been installed through the state-setter, that function is called and
\* the base fetchAll is not: no get goes out and the state is not touched.
C35_RefetchThroughState ==
  [][ \A p \in Procs :
        RefetchCalled(p) =>
          /\ calls[p].kind \in {"create", "update", "remove"}
          /\ calls[p].main = "ok"
          /\ calls'[p].ran = {state.fetchAll}
          /\ IF state.fetchAll = [t |-> "function", name |-> "fetchAll"]
               THEN /\ Len(calls'[p].log) = Len(calls[p].log) + 1
                    /\ calls'[p].log[Len(calls'[p].log)].method = "get"
                    /\ state'.loading = TRUE
               ELSE /\ calls'[p].log = calls[p].log
                    /\ state' = state ]_vars

\* on a store made without extension, another fetchAll was installed through
\* the state-setter while the post of a create was in flight, and the
\* refetch of the create called it: only the post went out
C35_Witness ==
  /\ made.arg = Undefined
  /\ calls[1].kind = "create" /\ calls[1].main = "ok"
  /\ calls[1].pc = "done"
  /\ calls[1].ran = {ActionFn("customFetchAll")}
  /\ Len(calls[1].log) = 1 /\ calls[1].log[1].method = "post"

\* the refetch of a remove called the fetchAll that the extension supplied
C35_ExtensionCase ==
  /\ made.arg = CollidingExtension
  /\ calls[1].kind = "remove" /\ calls[1].pc = "done"
  /\ calls[1].ran = {ActionFn("customFetchAll")}
  /\ Len(calls[1].log) = 1

\* no invocation of a base action is between its call and its return
NoneInFlight == \A p \in Procs : calls[p].pc \in {"idle", "done"}

\* C36: on a store whose loading field is written by the base actions only,
\* loading is false in every reachable state in which no base action is in
\* flight.
C36_IdleStoreNotLoading ==
  NoneInFlight => state.loading = FALSE

\* actions have overlapped and all of them have returned: the last one to
\* return is a mutating action that another action overlapped, and the store
\* is not loading
C36_Witness ==
  \E p \in Procs :
    /\ calls[p].pc = "done" /\ ~calls[p].solo
    /\ calls[p].kind \in {"create", "update", "remove"}
    /\ calls[p].refetch # "none"
    /\ \A q \in Procs \ {p} : calls[q].pc = "idle"
    /\ state.loading = FALSE

\* the get of the fetchAll that slot p invoked resolves without a body in
\* this step
FetchAllGetsNoBody(p) ==
  /\ calls[p].kind = "fetchAll" /\ calls[p].pc = "await"
  /\ calls'[p].main = "ok"
  /\ ~calls'[p].resp.isObject

\* C37: when the get of a fetchAll resolves with no body, the action takes
\* its failure path: in that step error becomes an error object, loading
\* becomes false, items and meta stay as they are, and the promise of the
\* action resolves.
C37_NoBodyTakesFailurePath ==
  [][ \A p \in Procs :
        FetchAllGetsNoBody(p) =>
          /\ state'.error.t = "error"
          /\ state'.loading = FALSE
          /\ state'.items = state.items
          /\ state'.meta = state.meta
          /\ calls'[p].pc = "done"
          /\ calls'[p].settled = "resolved" ]_vars

\* a fetchAll on a store that holds a list of two resources got no body: the
\* list and its paging data are still there, error is set
C37_Witness ==
  \E p \in Procs :
    /\ calls[p].pc = "done" /\ calls[p].kind = "fetchAll"
    /\ calls[p].main = "ok" /\ calls[p].resp = NullBody
    /\ calls[p].settled = "resolved"
    /\ state.error.t = "error"
    /\ state.loading = FALSE
    /\ Len(state.items) = 2 /\ state.meta.totalPages = 2

====
